---- MODULE Spec2Model ----
(***************************************************************************)
(* QueueCTL: a CLI job queue that keeps its jobs in one JSON file          *)
(* (jobs.json).  Every CLI invocation is its own OS process; the file is   *)
(* the only shared state and it is read (load_jobs) and rewritten whole    *)
(* (save_jobs) without any lock.  The model has one step per file access:  *)
(* what a process computes in memory between two file accesses is folded   *)
(* into the step of the next access.                                       *)
(***************************************************************************)
EXTENDS Integers, Sequences, FiniteSets, TLC

\* ------------------------------------------------------------------ bounds
\* most records enqueue is let to put into jobs.json
MaxJobs == 2
\* the wall clock runs 0..MaxTime (seconds)
MaxTime == 1
\* a failing execution is modelled only while attempts is below this cap
MaxAttempts == 4

\* ------------------------------------------------------- program constants
\* job.setdefault("max_retries", 3)
DefaultMaxRetries == 3

\* the worker loops that poll the same jobs.json
Workers == {"w1", "w2"}

States == {"pending", "processing", "completed", "failed", "dead"}

\* ------------------------------------------------------------ time stamps
\* time.strftime("%Y-%m-%dT%H:%M:%SZ", time.gmtime()): UTC, whole seconds, "Z"
Strftime(t) == <<"utcZ", t>>

\* datetime.now().isoformat(): naive local time, no "Z" suffix
Isoformat(t) == <<"localiso", t>>

\* ------------------------------------------------------------- job inputs
\* The argument of `enqueue` is a string; json.loads either raises
\* JSONDecodeError (valid = FALSE) or yields the object it denotes (value).
BadJson == [valid |-> FALSE]

Json(obj) == [valid |-> TRUE, value |-> obj]

\* the documents tried on the concurrent system
JobData ==
    { Json([id |-> "job1", command |-> "exit 1", max_retries |-> 2]),
      Json([id |-> "job1", command |-> "exit 0"]),
      Json([id |-> "", command |-> ""]),
      Json([id |-> "job2", command |-> "exit 1", attempts |-> 2, max_retries |-> 1]),
      Json([id |-> "job3", command |-> "exit 0", state |-> "completed"]),
      Json([id |-> "job0", command |-> "exit 0", created_at |-> Strftime(-1)]),
      Json([command |-> "exit 0"]),
      BadJson }

\* the documents of the API enqueue(id, command, max_retries = 3)
ApiJobData ==
    { Json([id |-> "job1", command |-> "exit 1", max_retries |-> 2]),
      Json([id |-> "job2", command |-> "exit 1"]),
      Json([id |-> "job3", command |-> "exit 0"]),
      Json([id |-> "job4", command |-> "test -e ready"]),
      Json([id |-> "job5", command |-> "exit 1", max_retries |-> 1]),
      Json([id |-> "job6", command |-> "\\0", max_retries |-> 2]) }

\* subprocess.run(command, shell=True): the outcomes the command can have.
\* "ok" is returncode 0, "fail" a non-zero returncode, "error" an exception
\* raised by subprocess.run itself.  "\\0" is the command made of one NUL
\* character (JSON "\u0000"): Popen refuses it with ValueError("embedded
\* null byte") before any process is started.
Execute(command) ==
    CASE command = "exit 0" -> {"ok"}
      [] command = "" -> {"ok"}
      [] command = "exit 1" -> {"fail"}
      [] command = "\\0" -> {"error"}
      [] OTHER -> {"ok", "fail", "error"}

\* ------------------------------------------------------------------ state
VARIABLES
    file,    \* the content of jobs.json: a sequence of job records
    fstate,  \* jobs.json as bytes: "whole" (the JSON of `file`), "empty"
             \* (truncated by open(.., "w"), nothing written yet), "garbled",
             \* "missing" (no such file)
    now,     \* the wall clock
    wpc,     \* per worker: "poll", "claim" (about to save the claim), "exec";
             \* "claim_dump", "done_dump" (file opened for writing, list not
             \* yet dumped); "stopped" (KeyboardInterrupt), "crashed"
    wjobs,   \* per worker: its in-memory `jobs` list
    widx,    \* per worker: the place in `jobs` of `job` (pending_jobs[0]), or 0
    epc,     \* enqueue: "idle", "save" (add_job has loaded, not yet saved),
             \* "dump" (file opened for writing, list not yet dumped)
    earg,    \* enqueue: the object json.loads made of the argument
    ejob,    \* enqueue: the job being added (the same dict, defaults filled)
    ejobs,   \* enqueue: the list add_job loaded
    eout,    \* enqueue: the last message echoed
    rpc,     \* run: "idle", "claim", "exec"; "crashed" (uncaught exception)
    rjobs,   \* run: its in-memory `jobs` list
    rpend,   \* run: the places in `jobs` of the pending_jobs still to run
    lpc,     \* list: "idle", "create" (init_storage found no file and is
             \* about to write one), "load"
    lstate,  \* list: its --state option, "none" when not given
    lout     \* list / status: what the last invocation printed

vars == <<file, fstate, now, wpc, wjobs, widx, epc, earg, ejob, ejobs, eout, rpc, rjobs, rpend,
          lpc, lstate, lout>>

wvars == <<wpc, wjobs, widx>>
evars == <<epc, earg, ejob, ejobs, eout>>
rvars == <<rpc, rjobs, rpend>>
lvars == <<lpc, lstate, lout>>

NoJob == [none |-> TRUE]

\* nothing listed yet
NoOutput == [cmd |-> "none"]

\* -------------------------------------------------------------- storage.py
\* load_jobs(): the parsed file; [] when the file does not exist (`file` is
\* <<>> then)
LoadJobs == file

\* load_jobs returns: there is no file, or json.load(f) finds one whole JSON
\* text in it
Readable == fstate \in {"whole", "missing"}

\* save_jobs(jobs): rewrite the file with the list (open and dump as one step)
SaveJobs(jobs) == file' = jobs /\ fstate' = "whole"

\* [j for j in jobs if j['state'] == 'pending'], as places in jobs
PendingIdx(jobs) == {i \in DOMAIN jobs : jobs[i].state = "pending"}

Min(S) == CHOOSE x \in S : \A y \in S : x <= y

\* dict.setdefault(k, v)
SetDefault(job, k, v) == job @@ (k :> v)

\* enqueue, "fill defaults"
FillDefaults(job, t) ==
    SetDefault(SetDefault(SetDefault(SetDefault(SetDefault(job,
        "state", "pending"),
        "attempts", 0),
        "max_retries", DefaultMaxRetries),
        "created_at", Strftime(t)),
        "updated_at", Strftime(t))

\* ------------------------------------------------------------- the worker
\* the retry logic with the comparison off by one (<= for <)
RetryPolicyOffByOne(job, outcome) ==
    IF outcome = "ok"
    THEN [job EXCEPT !.state = "completed"]
    ELSE LET a == job.attempts + 1
         IN  [job EXCEPT !.attempts = a,
                         !.state = IF a <= job.max_retries THEN "pending" ELSE "dead"]

\* the retry logic counting every execution, a successful one too, as an attempt
RetryPolicyCountsSuccess(job, outcome) ==
    LET a == job.attempts + 1
    IN  IF outcome = "ok"
        THEN [job EXCEPT !.attempts = a, !.state = "completed"]
        ELSE [job EXCEPT !.attempts = a,
                         !.state = IF a < job.max_retries THEN "pending" ELSE "dead"]

\* the retry logic with an exception of subprocess.run not counted as an
\* attempt: the job goes back to pending as it was
RetryPolicyErrorNotCounted(job, outcome) ==
    IF outcome = "ok"
    THEN [job EXCEPT !.state = "completed"]
    ELSE IF outcome = "fail"
    THEN LET a == job.attempts + 1
         IN  [job EXCEPT !.attempts = a,
                         !.state = IF a < job.max_retries THEN "pending" ELSE "dead"]
    ELSE [job EXCEPT !.state = "pending"]

\* what the worker does to `job` once subprocess.run has returned (returncode
\* 0, the else branch for another returncode) or raised (the except branch)
RetryPolicy(job, outcome) ==
    IF outcome = "ok"
    THEN [job EXCEPT !.state = "completed"]
    ELSE IF outcome = "fail"
    THEN LET a == job.attempts + 1
         IN  [job EXCEPT !.attempts = a,
                         !.state = IF a < job.max_retries THEN "pending" ELSE "dead"]
    ELSE LET a == job.attempts + 1
         IN  [job EXCEPT !.attempts = a,
                         !.state = IF a < job.max_retries THEN "pending" ELSE "dead"]

Init ==
    /\ file = <<>>
    /\ now = 0
    /\ wpc = [w \in Workers |-> "poll"]
    /\ wjobs = [w \in Workers |-> <<>>]
    /\ widx = [w \in Workers |-> 0]
    /\ epc = "idle"
    /\ earg = NoJob
    /\ ejob = NoJob
    /\ ejobs = <<>>
    /\ eout = "none"
    /\ rpc = "idle"
    /\ rjobs = <<>>
    /\ rpend = <<>>
    /\ fstate = "whole"
    /\ lpc = "idle"
    /\ lstate = "none"
    /\ lout = NoOutput

\* the clock advances
Tick ==
    /\ now < MaxTime
    /\ now' = now + 1
    /\ UNCHANGED <<file, fstate, wvars, evars, rvars, lvars>>

\* worker: jobs = load_jobs(); pending_jobs = ...; job = pending_jobs[0];
\* job['state'] = 'processing'  (or, with nothing pending, sleep and loop).
\* load_jobs() is outside every try block but the one for KeyboardInterrupt:
\* a JSONDecodeError ends the process.
WorkerPoll(w) ==
    /\ wpc[w] = "poll"
    /\ IF ~Readable
       THEN /\ wpc' = [wpc EXCEPT ![w] = "crashed"]
            /\ UNCHANGED <<wjobs, widx>>
       ELSE LET jobs == LoadJobs
                pend == PendingIdx(jobs)
            IN  IF pend = {}
                THEN UNCHANGED wvars
                ELSE /\ wjobs' = [wjobs EXCEPT ![w] =
                                     [jobs EXCEPT ![Min(pend)].state = "processing"]]
                     /\ widx' = [widx EXCEPT ![w] = Min(pend)]
                     /\ wpc' = [wpc EXCEPT ![w] = "claim"]
    /\ UNCHANGED <<file, fstate, now, evars, rvars, lvars>>

\* worker: save_jobs(jobs) after marking the job processing
WorkerClaim(w) ==
    /\ wpc[w] = "claim"
    /\ SaveJobs(wjobs[w])
    /\ wpc' = [wpc EXCEPT ![w] = "exec"]
    /\ UNCHANGED <<now, wjobs, widx, evars, rvars, lvars>>

\* worker: the command ends; retry logic; updated_at; save_jobs(jobs); sleep
WorkerComplete(w) ==
    /\ wpc[w] = "exec"
    /\ \E outcome \in Execute(wjobs[w][widx[w]].command) :
          /\ outcome = "ok" \/ wjobs[w][widx[w]].attempts < MaxAttempts
          /\ LET job == RetryPolicy(wjobs[w][widx[w]], outcome)
                 done == [job EXCEPT !.updated_at = Strftime(now)]
             IN  SaveJobs([wjobs[w] EXCEPT ![widx[w]] = done])
    /\ wpc' = [wpc EXCEPT ![w] = "poll"]
    /\ wjobs' = [wjobs EXCEPT ![w] = <<>>]
    /\ widx' = [widx EXCEPT ![w] = 0]
    /\ UNCHANGED <<now, evars, rvars, lvars>>

\* ---------------------------------------------------------------- enqueue
\* enqueue, up to the load of add_job: json.loads, the required fields, the
\* defaults, init_storage() (which writes [] when there is no file) and
\* add_job's jobs = load_jobs(), whose exception enqueue catches and echoes
EnqueueBegin(job_data) ==
    /\ epc = "idle"
    /\ IF ~job_data.valid
       THEN /\ eout' = "invalid_json"
            /\ UNCHANGED <<epc, earg, ejob, ejobs>>
       ELSE IF ~({"id", "command"} \subseteq DOMAIN job_data.value)
       THEN /\ eout' = "missing_fields"
            /\ UNCHANGED <<epc, earg, ejob, ejobs>>
       ELSE IF ~Readable
       THEN /\ eout' = "save_failed"
            /\ UNCHANGED <<epc, earg, ejob, ejobs>>
       ELSE /\ Len(LoadJobs) < MaxJobs
            /\ earg' = job_data.value
            /\ ejob' = FillDefaults(job_data.value, now)
            /\ ejobs' = LoadJobs
            /\ epc' = "save"
            /\ eout' = "none"
    /\ fstate' = IF job_data.valid /\ {"id", "command"} \subseteq DOMAIN job_data.value
                    /\ fstate = "missing"
                 THEN "whole" ELSE fstate
    /\ UNCHANGED <<file, now, wvars, rvars, lvars>>

\* add_job: jobs.append(job); save_jobs(jobs); then "Job enqueued"
AddJob(jobs, job) == SaveJobs(Append(jobs, job))

EnqueueSave ==
    /\ epc = "save"
    /\ AddJob(ejobs, ejob)
    /\ epc' = "idle"
    /\ earg' = NoJob
    /\ ejob' = NoJob
    /\ ejobs' = <<>>
    /\ eout' = "enqueued"
    /\ UNCHANGED <<now, wvars, rvars, lvars>>

\* -------------------------------------------------------------------- run
\* the state run gives a job once its command has ended
RunOutcome(job, outcome) ==
    [job EXCEPT !.state = IF outcome = "ok" THEN "completed" ELSE "failed"]

\* pending_jobs in list order
RECURSIVE PendingSeq(_, _)
PendingSeq(jobs, i) ==
    IF i > Len(jobs) THEN <<>>
    ELSE IF jobs[i].state = "pending" THEN <<i>> \o PendingSeq(jobs, i + 1)
    ELSE PendingSeq(jobs, i + 1)

\* run: jobs = load_jobs(); pending_jobs; return if none; else the first
\* job['state'] = 'processing'
RunBegin ==
    /\ rpc = "idle"
    /\ IF ~Readable
       THEN /\ rpc' = "crashed"
            /\ UNCHANGED <<rjobs, rpend>>
       ELSE LET jobs == LoadJobs
                pend == PendingSeq(jobs, 1)
            IN  IF pend = <<>>
                THEN UNCHANGED rvars
                ELSE /\ rjobs' = [jobs EXCEPT ![Head(pend)].state = "processing"]
                     /\ rpend' = pend
                     /\ rpc' = "claim"
    /\ UNCHANGED <<file, fstate, now, wvars, evars, lvars>>

\* run: save_jobs(jobs) after marking the job processing; sleep(1)
RunClaim ==
    /\ rpc = "claim"
    /\ SaveJobs(rjobs)
    /\ rpc' = "exec"
    /\ UNCHANGED <<now, rjobs, rpend, wvars, evars, lvars>>

\* run: the command ends; completed or failed; save_jobs(jobs); then the
\* next job of pending_jobs is marked processing, or run returns
RunComplete ==
    /\ rpc = "exec"
    /\ \E outcome \in Execute(rjobs[Head(rpend)].command) :
          LET saved == [rjobs EXCEPT ![Head(rpend)] = RunOutcome(@, outcome)]
              rest == Tail(rpend)
          IN  /\ SaveJobs(saved)
              /\ IF rest = <<>>
                 THEN /\ rpc' = "idle"
                      /\ rjobs' = <<>>
                      /\ rpend' = <<>>
                 ELSE /\ rpc' = "claim"
                      /\ rjobs' = [saved EXCEPT ![Head(rest)].state = "processing"]
                      /\ rpend' = rest
    /\ UNCHANGED <<now, wvars, evars, lvars>>

\* ------------------------------------------------------- update_job_state
\* update_job_state stamping created_at as well as updated_at
UpdatedJobsStampsCreatedAt(jobs, job_id, new_state, t) ==
    [i \in DOMAIN jobs |->
        IF jobs[i].id = job_id
        THEN [jobs[i] EXCEPT !.state = new_state, !.updated_at = Isoformat(t),
                             !.created_at = Isoformat(t)]
        ELSE jobs[i]]

\* the records update_job_state(job_id, new_state) writes back
UpdatedJobs(jobs, job_id, new_state, t) ==
    [i \in DOMAIN jobs |->
        IF jobs[i].id = job_id
        THEN [jobs[i] EXCEPT !.state = new_state, !.updated_at = Isoformat(t)]
        ELSE jobs[i]]

UpdateJobState(job_id, new_state) ==
    /\ Readable
    /\ SaveJobs(UpdatedJobs(LoadJobs, job_id, new_state, now))
    /\ UNCHANGED <<now, wvars, evars, rvars, lvars>>

\* the ids update_job_state is called with
JobIds == {"job1", "job2", ""}

\* ---------------------------------------------------------- list, status
\* [j for j in jobs if j["state"] == state], from place i on
RECURSIVE Filtered(_, _, _)
Filtered(jobs, state, i) ==
    IF i > Len(jobs) THEN <<>>
    ELSE IF jobs[i].state = state THEN <<jobs[i]>> \o Filtered(jobs, state, i + 1)
    ELSE Filtered(jobs, state, i + 1)

\* list_jobs(state) on the loaded list; `if state:` is false for None
ListJobs(jobs, state) == IF state # "none" THEN Filtered(jobs, state, 1) ELSE jobs

\* the values of --state: a state, or "none" for the option not given
Filters == States \cup {"none"}

\* list: init_storage() looks whether jobs.json exists
ListBegin(state) ==
    /\ lpc = "idle"
    /\ lstate' = state
    /\ lpc' = IF fstate = "missing" THEN "create" ELSE "load"
    /\ UNCHANGED <<file, fstate, now, wvars, evars, rvars, lout>>

\* list: init_storage() found no file: open(JOBS_FILE, "w"), json.dump([], f)
ListCreate ==
    /\ lpc = "create"
    /\ file' = <<>>
    /\ fstate' = "whole"
    /\ lpc' = "load"
    /\ UNCHANGED <<now, wvars, evars, rvars, lstate, lout>>

\* list: storage.list_jobs, then one echo per job ("No jobs found." for
\* none); an exception of load_jobs ends it with a traceback
ListLoad ==
    /\ lpc = "load"
    /\ lout' = IF Readable
               THEN [cmd |-> "list", state |-> lstate, jobs |-> ListJobs(LoadJobs, lstate)]
               ELSE [cmd |-> "list", state |-> lstate, jobs |-> "traceback"]
    /\ lpc' = "idle"
    /\ UNCHANGED <<file, fstate, now, wvars, evars, rvars, lstate>>

\* status: load, filter, the table and the summary by state, in one go (its
\* only file access is the load)
Status(state) ==
    /\ lout' = IF Readable
               THEN LET jobs == ListJobs(LoadJobs, state)
                    IN  [cmd |-> "status", state |-> state, jobs |-> jobs,
                         summary |-> [s \in States |->
                                        Cardinality({i \in DOMAIN jobs : jobs[i].state = s})]]
               ELSE [cmd |-> "status", state |-> state, jobs |-> "traceback"]
    /\ UNCHANGED <<file, fstate, now, wvars, evars, rvars, lpc, lstate>>

\* ------------------------------------------- save_jobs, one system call at
\* a time.  `with open(JOBS_FILE, "w") as f` truncates the file when it is
\* opened; json.dump(jobs, f) then writes the text from offset 0.
OpenForWrite == file' = <<>> /\ fstate' = "empty"

\* The dump of this writer's list.  Into the file it truncated itself the
\* text arrives whole; when another writer has written since (the file is
\* not empty), this text overwrites the other from offset 0: whole if it is
\* at least as long, otherwise followed by the other text's tail.
Dump(jobs) ==
    \/ file' = jobs /\ fstate' = "whole"
    \/ fstate # "empty" /\ file' = <<>> /\ fstate' = "garbled"

\* worker: save_jobs(jobs) after marking the job processing, the open
WorkerClaimOpen(w) ==
    /\ wpc[w] = "claim"
    /\ OpenForWrite
    /\ wpc' = [wpc EXCEPT ![w] = "claim_dump"]
    /\ UNCHANGED <<now, wjobs, widx, evars, rvars, lvars>>

\* worker: save_jobs(jobs) after marking the job processing, the dump
WorkerClaimDump(w) ==
    /\ wpc[w] = "claim_dump"
    /\ Dump(wjobs[w])
    /\ wpc' = [wpc EXCEPT ![w] = "exec"]
    /\ UNCHANGED <<now, wjobs, widx, evars, rvars, lvars>>

\* worker: the command ends; retry logic; updated_at; save_jobs opens the file
WorkerCompleteOpen(w) ==
    /\ wpc[w] = "exec"
    /\ \E outcome \in Execute(wjobs[w][widx[w]].command) :
          /\ outcome = "ok" \/ wjobs[w][widx[w]].attempts < MaxAttempts
          /\ LET job == RetryPolicy(wjobs[w][widx[w]], outcome)
                 done == [job EXCEPT !.updated_at = Strftime(now)]
             IN  wjobs' = [wjobs EXCEPT ![w][widx[w]] = done]
    /\ OpenForWrite
    /\ wpc' = [wpc EXCEPT ![w] = "done_dump"]
    /\ UNCHANGED <<now, widx, evars, rvars, lvars>>

\* worker: save_jobs dumps the list; sleep; next poll
WorkerCompleteDump(w) ==
    /\ wpc[w] = "done_dump"
    /\ Dump(wjobs[w])
    /\ wpc' = [wpc EXCEPT ![w] = "poll"]
    /\ wjobs' = [wjobs EXCEPT ![w] = <<>>]
    /\ widx' = [widx EXCEPT ![w] = 0]
    /\ UNCHANGED <<now, evars, rvars, lvars>>

\* the points of the worker loop
Running == {"poll", "claim", "claim_dump", "exec", "done_dump"}

\* Ctrl+C: KeyboardInterrupt is raised wherever the loop is (in load_jobs,
\* in save_jobs, in subprocess.run, in sleep); `except Exception` does not
\* catch it, the outer `except KeyboardInterrupt` echoes and the worker ends
WorkerInterrupt(w) ==
    /\ wpc[w] \in Running
    /\ wpc' = [wpc EXCEPT ![w] = "stopped"]
    /\ UNCHANGED <<file, fstate, now, wjobs, widx, evars, rvars, lvars>>

\* an OSError from open(), read or write of jobs.json in load_jobs or
\* save_jobs: the worker has no handler for it (the inner try holds only
\* subprocess.run), so the process ends with a traceback; a file it had
\* opened for writing stays as far as it was written
WorkerStorageError(w) ==
    /\ wpc[w] \in Running
    /\ wpc' = [wpc EXCEPT ![w] = "crashed"]
    /\ UNCHANGED <<file, fstate, now, wjobs, widx, evars, rvars, lvars>>

\* add_job: save_jobs opens the file
EnqueueOpen ==
    /\ epc = "save"
    /\ OpenForWrite
    /\ epc' = "dump"
    /\ UNCHANGED <<now, earg, ejob, ejobs, eout, wvars, rvars, lvars>>

\* add_job: save_jobs dumps the list; then "Job enqueued"
EnqueueDump ==
    /\ epc = "dump"
    /\ Dump(Append(ejobs, ejob))
    /\ epc' = "idle"
    /\ earg' = NoJob
    /\ ejob' = NoJob
    /\ ejobs' = <<>>
    /\ eout' = "enqueued"
    /\ UNCHANGED <<now, wvars, rvars, lvars>>

\* an OSError in add_job's save_jobs: enqueue catches it, "Failed to save job"
EnqueueStorageError ==
    /\ epc \in {"save", "dump"}
    /\ epc' = "idle"
    /\ earg' = NoJob
    /\ ejob' = NoJob
    /\ ejobs' = <<>>
    /\ eout' = "save_failed"
    /\ UNCHANGED <<file, fstate, now, wvars, rvars, lvars>>

\* ---------------------------------------------------------- specifications
\* no CLI invocation is between two of its file accesses
Quiet ==
    /\ \A w \in Workers : wpc[w] = "poll"
    /\ epc = "idle"
    /\ rpc = "idle"

\* Two worker loops and enqueue invocations run at once on one jobs.json; every
\* file access is a step of its own, in any order.
Next ==
    \/ Tick
    \/ \E w \in Workers : WorkerPoll(w)
    \/ \E w \in Workers : WorkerClaim(w)
    \/ \E w \in Workers : WorkerComplete(w)
    \/ \E d \in JobData : EnqueueBegin(d)
    \/ EnqueueSave

Spec == Init /\ [][Next]_vars

\* The CLI used by one user, one invocation at a time: an invocation (one
\* enqueue, one run, one poll cycle of the one worker) begins only when no
\* other is under way.
NextCli ==
    \/ Tick
    \/ Quiet /\ WorkerPoll("w1")
    \/ WorkerClaim("w1")
    \/ WorkerComplete("w1")
    \/ Quiet /\ \E d \in JobData : EnqueueBegin(d)
    \/ EnqueueSave
    \/ Quiet /\ RunBegin
    \/ RunClaim
    \/ RunComplete

SpecCli == Init /\ [][NextCli]_vars

\* The same, with storage.update_job_state called between invocations.
NextLib ==
    \/ NextCli
    \/ Quiet /\ \E id \in JobIds, s \in States : UpdateJobState(id, s)

SpecLib == Init /\ [][NextLib]_vars

\* The queue used through enqueue(id, command, max_retries = 3) and one worker,
\* one invocation or poll cycle at a time.
NextApi ==
    \/ Tick
    \/ Quiet /\ WorkerPoll("w1")
    \/ WorkerClaim("w1")
    \/ WorkerComplete("w1")
    \/ Quiet /\ \E d \in ApiJobData : EnqueueBegin(d)
    \/ EnqueueSave

SpecApi == Init /\ [][NextApi]_vars

\* One worker loop and enqueue invocations at once on one jobs.json, down to
\* the system calls of save_jobs, with the interrupt of the worker and with
\* I/O errors.
NextIo ==
    \/ \E d \in ApiJobData : EnqueueBegin(d)
    \/ EnqueueOpen
    \/ EnqueueDump
    \/ EnqueueStorageError
    \/ WorkerPoll("w1")
    \/ WorkerClaimOpen("w1")
    \/ WorkerClaimDump("w1")
    \/ WorkerCompleteOpen("w1")
    \/ WorkerCompleteDump("w1")
    \/ WorkerInterrupt("w1")
    \/ WorkerStorageError("w1")

SpecIo == Init /\ [][NextIo]_vars

\* the state before jobs.json has ever been written
InitFresh ==
    /\ file = <<>>
    /\ fstate = "missing"
    /\ now = 0
    /\ wpc = [w \in Workers |-> "poll"]
    /\ wjobs = [w \in Workers |-> <<>>]
    /\ widx = [w \in Workers |-> 0]
    /\ epc = "idle"
    /\ earg = NoJob
    /\ ejob = NoJob
    /\ ejobs = <<>>
    /\ eout = "none"
    /\ rpc = "idle"
    /\ rjobs = <<>>
    /\ rpend = <<>>
    /\ lpc = "idle"
    /\ lstate = "none"
    /\ lout = NoOutput

\* the documents enqueued beside list and status: a job that fails twice and
\* is dead, one that completes, one that is dead at its first failure
QueryJobData == {d \in ApiJobData : d.value.id \in {"job1", "job3", "job5"}}

\* list and status invocations beside one worker loop and enqueue invocations
\* (these two one at a time), starting without a jobs.json
NextQuery ==
    \/ Quiet /\ WorkerPoll("w1")
    \/ WorkerClaim("w1")
    \/ WorkerComplete("w1")
    \/ Quiet /\ \E d \in QueryJobData : EnqueueBegin(d)
    \/ EnqueueSave
    \/ \E s \in Filters : ListBegin(s)
    \/ ListCreate
    \/ ListLoad
    \/ \E s \in Filters : Status(s)

SpecQuery == InitFresh /\ [][NextQuery]_vars

\* Every operation that rewrites jobs.json, one invocation at a time: a
\* worker loop, run, update_job_state and enqueue.
NextFields ==
    \/ Tick
    \/ Quiet /\ WorkerPoll("w1")
    \/ WorkerClaim("w1")
    \/ WorkerComplete("w1")
    \/ Quiet /\ \E d \in QueryJobData : EnqueueBegin(d)
    \/ EnqueueSave
    \/ Quiet /\ RunBegin
    \/ RunClaim
    \/ RunComplete
    \/ Quiet /\ \E id \in JobIds, s \in {"pending", "failed"} : UpdateJobState(id, s)

SpecFields == Init /\ [][NextFields]_vars

\* The CLI used by one user, with a worker that runs forever: the loop of
\* `while True` takes its next step whenever it can (a poll as soon as no
\* other invocation is under way, the save of its claim, the end of the
\* command and the write-back), and an enqueue or a run, once begun, goes on
\* to its end.  Every command terminates; nobody interrupts.
SpecLive ==
    /\ Init
    /\ [][NextCli]_vars
    /\ WF_vars(Quiet /\ WorkerPoll("w1"))
    /\ WF_vars(WorkerClaim("w1"))
    /\ WF_vars(WorkerComplete("w1"))
    /\ WF_vars(EnqueueSave)
    /\ WF_vars(RunClaim)
    /\ WF_vars(RunComplete)

\* ================================================================= claims
\* the record at place i of jobs.json before and after a step
Before(i) == file[i]
After(i) == file'[i]

\* the job a worker holds between its claim and its write-back
Held(w) == wjobs[w][widx[w]]

\* C1: claim is mutually exclusive: no two workers ever execute the same
\* record (same place in jobs.json, same id) at the same time.
C1_MutualExclusion ==
    \A w1 \in Workers, w2 \in Workers :
        (w1 # w2 /\ wpc[w1] = "exec" /\ wpc[w2] = "exec")
            => ~(widx[w1] = widx[w2] /\ Held(w1).id = Held(w2).id)

\* C2: no persisted update is lost: a record that is in jobs.json stays in
\* it at its place under every later step, and a record that is completed
\* stays completed.
C2_NoLostUpdate ==
    [][\A i \in DOMAIN file :
          /\ i \in DOMAIN file'
          /\ After(i).id = Before(i).id
          /\ (Before(i).state = "completed" => After(i).state = "completed")]_vars

\* a job whose command fails at every execution
AlwaysFails(job) == Execute(job.command) = {"fail"}

\* a job whose command succeeds at every execution
AlwaysSucceeds(job) == Execute(job.command) = {"ok"}

C3_Levels ==
    \A i \in DOMAIN file :
        AlwaysFails(file[i]) =>
            \/ file[i].state \in {"pending", "processing"}
                  /\ file[i].attempts < file[i].max_retries
            \/ file[i].state = "dead" /\ file[i].attempts = file[i].max_retries

C3_Moves ==
    /\ \A i \in DOMAIN file' \ DOMAIN file :
          AlwaysFails(After(i)) => After(i).state = "pending" /\ After(i).attempts = 0
    /\ \A i \in DOMAIN file :
          AlwaysFails(Before(i)) =>
             /\ i \in DOMAIN file'
             /\ \/ After(i) = Before(i)
                \/ /\ Before(i).state = "pending"
                   /\ After(i).state = "processing"
                   /\ After(i).attempts = Before(i).attempts
                \/ /\ Before(i).state = "processing"
                   /\ After(i).attempts = Before(i).attempts + 1
                   /\ After(i).state = IF After(i).attempts < Before(i).max_retries
                                       THEN "pending" ELSE "dead"

\* C3: a job with max_retries = m whose command always fails, under one
\* worker: it enters the store Pending with attempts 0; the only moves it
\* makes are Pending(a) -> Processing(a) and Processing(a) -> Pending(a+1)
\* when a+1 < m, Processing(a) -> Dead(a+1) when a+1 >= m, so that after its
\* k-th cycle, k < m, it is Pending with attempts k and after its m-th cycle
\* Dead with attempts m; a Dead job never moves again.
C3_RetryTrace == []C3_Levels /\ [][C3_Moves]_vars

\* max_retries = 3 has gone Pending -> ... -> Dead with attempts 3, and
\* max_retries = 2 (job1 of the concrete scenario) is Dead with attempts 2
C3_Witness ==
    /\ \E i \in DOMAIN file :
          /\ AlwaysFails(file[i]) /\ file[i].max_retries = 3
          /\ file[i].state = "dead" /\ file[i].attempts = 3
    /\ \E i \in DOMAIN file :
          /\ AlwaysFails(file[i]) /\ file[i].max_retries = 2
          /\ file[i].state = "dead" /\ file[i].attempts = 2

C4_Levels ==
    \A i \in DOMAIN file :
        AlwaysSucceeds(file[i]) =>
            /\ file[i].state \in {"pending", "processing", "completed"}
            /\ file[i].attempts = 0

C4_Moves ==
    \A i \in DOMAIN file :
        /\ i \in DOMAIN file'
        /\ (After(i).state = "completed" /\ Before(i).state # "completed")
              => Before(i).state = "processing" /\ After(i).attempts = Before(i).attempts
        /\ (AlwaysSucceeds(Before(i)) /\ After(i) # Before(i))
              => \/ Before(i).state = "pending" /\ After(i).state = "processing"
                 \/ Before(i).state = "processing" /\ After(i).state = "completed"

\* C4: a job whose command succeeds on its first execution goes
\* Pending -> Processing -> Completed with attempts 0 throughout; whenever
\* a job becomes Completed it was Processing and its attempts is unchanged.
C4_SuccessCompletes == []C4_Levels /\ [][C4_Moves]_vars

\* one job completed on its first execution with attempts 0, another
\* completed after one failed execution with attempts still 1
C4_Witness ==
    /\ \E i \in DOMAIN file :
          AlwaysSucceeds(file[i]) /\ file[i].state = "completed" /\ file[i].attempts = 0
    /\ \E i \in DOMAIN file :
          file[i].state = "completed" /\ file[i].attempts = 1

C5_Levels ==
    \A i \in DOMAIN file :
        /\ file[i].state # "dead" => file[i].attempts <= file[i].max_retries
        /\ file[i].state \in {"pending", "processing"}
              => file[i].attempts < file[i].max_retries

C5_Moves ==
    \A i \in DOMAIN file :
        i \in DOMAIN file' => After(i).attempts >= Before(i).attempts

\* C5: for every stored job attempts never decreases, attempts <= max_retries
\* while the job is not Dead, and attempts < max_retries while it is Pending
\* or Processing.
C5_AttemptsBounded == []C5_Levels /\ [][C5_Moves]_vars

\* the state changes of the state machine
Transitions ==
    { <<"pending", "processing">>, <<"processing", "completed">>,
      <<"processing", "pending">>, <<"processing", "dead">> }

\* C6: every change of a stored job's state is one of Pending -> Processing,
\* Processing -> Completed, Processing -> Pending, Processing -> Dead; a
\* Completed or Dead job never changes state.
C6_OnlyTransitions ==
    [][\A i \in DOMAIN file :
          (i \in DOMAIN file' /\ After(i).state # Before(i).state)
              => <<Before(i).state, After(i).state>> \in Transitions]_vars

\* C7: no stored record ever has the state failed.
C7_NoFailedStored == \A i \in DOMAIN file : file[i].state # "failed"

\* the enqueue under way ends in this step
EnqueueEnds == epc = "save" /\ epc' = "idle"

C8_UniqueIds ==
    \A i \in DOMAIN file, j \in DOMAIN file : i # j => file[i].id # file[j].id

C8_Rejects ==
    (EnqueueEnds /\ \E i \in DOMAIN file : file[i].id = ejob.id)
        => file' = file /\ eout' # "enqueued"

\* C8: enqueue of an id that is already in the store fails and leaves the
\* store unchanged; ids are unique in the store in every reachable state.
C8_DuplicateIdRejected == []C8_UniqueIds /\ [][C8_Rejects]_vars

C9_NoneEmpty ==
    \A i \in DOMAIN file : file[i].id # "" /\ file[i].command # ""

C9_Rejects ==
    (EnqueueEnds /\ (ejob.id = "" \/ ejob.command = ""))
        => file' = file /\ eout' # "enqueued"

\* C9: enqueue of an empty id or an empty command fails and leaves the store
\* unchanged; no record with an empty id or command is ever stored.
C9_EmptyRejected == []C9_NoneEmpty /\ [][C9_Rejects]_vars

\* C10: the record a successful enqueue appends is Pending with attempts 0
\* and a positive max_retries, 3 when the job data gives none.
C10_CreatedPending ==
    [][(EnqueueEnds /\ eout' = "enqueued") =>
          LET new == file'[Len(file')]
          IN  /\ new.state = "pending"
              /\ new.attempts = 0
              /\ new.max_retries > 0
              /\ "max_retries" \notin DOMAIN earg
                    => new.max_retries = DefaultMaxRetries]_vars

\* the worker's write-back of an outcome happens in this step
Completes(w) == wpc[w] = "exec" /\ wpc'[w] = "poll"

\* C11: a write-back of an outcome for a job whose stored record is not
\* Processing at that moment (another process has moved it since this
\* worker's claim) changes nothing in jobs.json.
C11_CompleteNeedsProcessing ==
    [][\A w \in Workers :
          (Completes(w) /\ ~(widx[w] \in DOMAIN file
                             /\ file[widx[w]].state = "processing"))
              => file' = file]_vars

\* Python's order on the ids in use (str comparison)
IdOrder == <<"", "job0", "job1", "job2", "job3", "job4", "job5", "job6">>

IdRank(id) == CHOOSE k \in DOMAIN IdOrder : IdOrder[k] = id

\* FIFO by created_at, ties by ascending id: a comes no later than b
NoLater(a, b) ==
    \/ a.created_at[2] < b.created_at[2]
    \/ a.created_at[2] = b.created_at[2] /\ IdRank(a.id) <= IdRank(b.id)

\* C12: the job a worker has picked and is about to mark Processing is, among
\* the records Pending in the store, the one with the smallest created_at,
\* ties broken by ascending id.
C12_ClaimsOldest ==
    \A w \in Workers :
        wpc[w] = "claim" =>
            \A i \in PendingIdx(file) : NoLater(file[widx[w]], file[i])

\* C13: once a worker has stopped on the interrupt, no job is left in
\* Processing: the job that was in flight has had its outcome persisted.
\* (Only this worker marks jobs Processing here.)
C13_StopLeavesNoneProcessing ==
    \A w \in Workers :
        wpc[w] = "stopped" =>
            \A i \in DOMAIN file : file[i].state # "processing"

\* C14: a storage error during the worker's claim or complete step never
\* ends the worker.
C14_WorkerSurvivesStorageError == \A w \in Workers : wpc[w] # "crashed"

\* C15: whenever a worker is about to load jobs.json, the file holds a whole
\* collection (the one before or the one after a write), never an empty or
\* partial text.
C15_ReadersSeeWhole ==
    \A w \in Workers : wpc[w] = "poll" => fstate = "whole"

\* a job whose command makes subprocess.run raise at every execution
AlwaysRaises(job) == Execute(job.command) = {"error"}

C16_Levels ==
    /\ \A w \in Workers : wpc[w] \in {"poll", "claim", "exec"}
    /\ \A i \in DOMAIN file :
          AlwaysRaises(file[i]) =>
              \/ file[i].state \in {"pending", "processing"}
                    /\ file[i].attempts < file[i].max_retries
              \/ file[i].state = "dead" /\ file[i].attempts = file[i].max_retries

C16_Moves ==
    \A i \in DOMAIN file :
        (AlwaysRaises(Before(i)) /\ Before(i).state = "processing") =>
            /\ i \in DOMAIN file'
            /\ \/ After(i) = Before(i)
               \/ /\ After(i).attempts = Before(i).attempts + 1
                  /\ After(i).state = IF After(i).attempts < Before(i).max_retries
                                      THEN "pending" ELSE "dead"
                  /\ \E w \in Workers : wpc[w] = "exec" /\ wpc'[w] = "poll"

\* C16: a job whose execution raises an exception in the executor is treated
\* like one that exits non-zero: the step that ends its Processing adds one
\* to attempts and makes it Pending if the new attempts < max_retries and
\* Dead otherwise, and the worker is back at its poll; no worker ever ends.
C16_ErrorLikeFailure == []C16_Levels /\ [][C16_Moves]_vars

\* the job with the NUL command, max_retries 2, has raised twice and is Dead,
\* and the worker polls on
C16_Witness ==
    /\ wpc["w1"] = "poll"
    /\ \E i \in DOMAIN file :
          /\ AlwaysRaises(file[i]) /\ file[i].max_retries = 2
          /\ file[i].state = "dead" /\ file[i].attempts = 2

\* C17: every step that changes the state of a stored job (the claim as well
\* as the write-back of an outcome, by worker or run) leaves the record's
\* updated_at at the time of that step.
C17_UpdatedAtRefreshed ==
    [][\A i \in DOMAIN file \cap DOMAIN file' :
          After(i).state # Before(i).state
              => After(i).updated_at = Strftime(now)]_vars

\* the places of jobs whose records have state s
Matching(jobs, s) == {i \in DOMAIN jobs : jobs[i].state = s}

\* C18: no step of list or status changes a stored record, and what list
\* returns is exactly the stored records whose state equals the filter, in
\* store order; all records when no filter is given.
C18_ListStatusReadOnly ==
    [][/\ (lpc' # lpc \/ lout' # lout) => file' = file
       /\ (lpc = "load" /\ lpc' = "idle") =>
             /\ lout'.jobs = IF lstate = "none" THEN file
                             ELSE SelectSeq(file, LAMBDA j : j.state = lstate)
             /\ lstate # "none" =>
                   Len(lout'.jobs) = Cardinality(Matching(file, lstate))]_vars

\* C19: a stored record keeps its id, command, max_retries and created_at:
\* every step of a worker, of run, of update_job_state and of a later enqueue
\* leaves the record at its place with these four fields as they were.
C19_FieldsImmutable ==
    [][\A i \in DOMAIN file :
          /\ i \in DOMAIN file'
          /\ After(i).id = Before(i).id
          /\ After(i).command = Before(i).command
          /\ After(i).max_retries = Before(i).max_retries
          /\ After(i).created_at = Before(i).created_at]_vars

\* a record enqueued at time 0 has since been worked to its end by the
\* worker, moved by update_job_state (the local-time updated_at shows it),
\* and another record has been enqueued after it
C19_Witness ==
    /\ Len(file) = 2
    /\ file[1].created_at = Strftime(0)
    /\ file[1].attempts > 0
    /\ file[1].updated_at = Isoformat(1)
    /\ file[2].state = "completed"

\* the record at place i is stored and is Completed or Dead
Settled(i) == i \in DOMAIN file /\ file[i].state \in {"completed", "dead"}

\* C20: with one worker running forever, every job that is in the store in a
\* state other than Completed or Dead (Pending, Processing or Failed)
\* eventually is Completed or Dead and stays so.
C20_EveryJobSettles ==
    \A i \in 1..MaxJobs :
        (i \in DOMAIN file /\ ~Settled(i)) ~> []Settled(i)

====
